---- MODULE Spec2Model ----
(***************************************************************************)
(* Model of github-repo-mirror (src/main.go): a sequential batch run that  *)
(* lists the repositories of each configured source page by page, filters  *)
(* them, and mirrors (clone path) or refreshes (update path) each one by   *)
(* shelling out to git, counting one outcome per repository.               *)
(*                                                                         *)
(* The remote API, os.Stat and every external command are the environment: *)
(* their results are drawn nondeterministically where the code calls them. *)
(***************************************************************************)
EXTENDS Integers, Sequences, FiniteSets, TLC

VARIABLES
    config,      \* *Config: [Sources: sequence of Source, Destination]
    fs,          \* the local paths that exist on disk
    stats,       \* []*Stat, one appended per source entered
    pc,          \* position of main()
    src,         \* index of the source the range loop is at (0 before the loop)
    page,        \* getRepo: page number of the next request
    repos,       \* getRepo's accumulator, then main's repos
    idx,         \* index in repos of the repository being / last processed
    largestsize, \* main's largestsize, set by objects(local)
    url,         \* main's url, the URL clone is invoked with ("" outside the clone path)
    summary,     \* the summary lines logged so far
    calls,       \* history: the calls made for the current repository, with results
    before,      \* history: stats[src] and fs when the current repository began
    requests,    \* history: the page requests of the last getRepo call
    responses,   \* history: the responses to those requests
    listing,     \* history: per source entered, how its getRepo call returned, and
                 \* after how many requests
    ended        \* history: per local path processed in this run, the counter its
                 \* last occurrence went to and how often it was counted Mirrored

vars == <<config, fs, stats, pc, src, page, repos, idx, largestsize, url, summary,
          calls, before, requests, responses, listing, ended>>

----------------------------------------------------------------------------
(* Bounds of the model *)

MaxPages == 3      \* pages after which the remote API has run out of repositories
MaxPageLen == 2    \* repositories per page in the run model
MaxRepos == 2      \* repositories one source has in the run model
MaxListLen == 2    \* entries of an Include / Exclude list in the filter model
MaxEntries == 2    \* directory entries visited by the walk of <local>/objects

(* Program constants *)

firstPage == 1
perPage == 100
PackThreshold == 95 * 1024 * 1024

----------------------------------------------------------------------------
(* Data *)

SeqsUpTo(S, n) == UNION {[1..k -> S] : k \in 0..n}

Range(s) == {s[i] : i \in 1..Len(s)}

Repo(fullName, private) == [FullName |-> fullName, Private |-> private]

RepoA == Repo("o/a", FALSE)
RepoB == Repo("o/b", TRUE)
RepoC == Repo("o/c", FALSE)

Source(username, token, include, exclude) ==
    [Username |-> username, Token |-> token, Include |-> include, Exclude |-> exclude]

NewStat(source) ==
    [Source |-> source, Repos |-> <<>>, Skipped |-> 0, Mirrored |-> 0, Updated |-> 0,
     Failed |-> 0, FailedMirror |-> 0, FailedUpdate |-> 0]

Counters == {"Skipped", "Mirrored", "Updated", "Failed", "FailedMirror", "FailedUpdate"}

Remote(repo) == "https://github.com/" \o repo.FullName \o ".git"

Local(repo) == config.Destination \o "/github.com/" \o repo.FullName \o ".git"

(* strings.Index: the position of the first substr in s, 0 when there is none *)
Index(s, substr) ==
    LET at == {i \in 1..(Len(s) - Len(substr) + 1) : SubSeq(s, i, i + Len(substr) - 1) = substr}
    IN IF at = {} THEN 0 ELSE CHOOSE i \in at : \A j \in at : i <= j

(* strings.Replace(s, old, new, n) for a non-empty old and n >= 0 *)
RECURSIVE Replace(_, _, _, _)
Replace(s, old, new, n) ==
    LET i == Index(s, old) IN
    IF n = 0 \/ i = 0 THEN s
    ELSE SubSeq(s, 1, i - 1) \o new
         \o Replace(SubSeq(s, i + Len(old), Len(s)), old, new, n - 1)

(* Mutation: the credentials are put into every clone URL. *)
CloneURLAlwaysAuthenticated(source, repo) ==
    Replace(Remote(repo), "https://",
            "https://" \o source.Username \o ":" \o source.Token \o "@", 1)

(* main's url: the remote, with username:token@ put in for a private repository *)
CloneURL(source, repo) ==
    IF repo.Private
    THEN Replace(Remote(repo), "https://",
                 "https://" \o source.Username \o ":" \o source.Token \o "@", 1)
    ELSE Remote(repo)

----------------------------------------------------------------------------
(* Filter: contains and skip *)

RECURSIVE contains(_, _)
contains(s, e) ==
    IF s = <<>> THEN FALSE
    ELSE IF Head(s) = e THEN TRUE
    ELSE contains(Tail(s), e)

(* Mutation: a non-empty Include list decides alone, Exclude is not looked at. *)
skipIncludeOnly(source, remote) ==
    IF Len(source.Include) > 0 THEN ~contains(source.Include, remote)
    ELSE contains(source.Exclude, remote)

skip(source, remote) ==
    IF Len(source.Include) > 0 /\ ~contains(source.Include, remote) THEN TRUE
    ELSE IF contains(source.Exclude, remote) THEN TRUE
    ELSE FALSE

----------------------------------------------------------------------------
(* Pack-size guard: objects walks <local>/objects.  The directory tree is   *)
(* given as the sequence of entries in the order WalkDir visits them.       *)

HasSuffix(s, suffix) ==
    /\ Len(s) >= Len(suffix)
    /\ SubSeq(s, Len(s) - Len(suffix) + 1, Len(s)) = suffix

DirEntry(name, isDir, size, walkErr, infoErr) ==
    [Name |-> name, IsDir |-> isDir, Size |-> size, WalkErr |-> walkErr, InfoErr |-> infoErr]

(* Mutation: count++ comes after the test of the suffix, only pack files are *)
(* counted.                                                                 *)
RECURSIVE walkCountsPacks(_, _, _)
walkCountsPacks(entries, largest, count) ==
    IF entries = <<>> THEN [largestsize |-> largest, count |-> count, err |-> FALSE]
    ELSE LET d == Head(entries) IN
        IF d.WalkErr THEN [largestsize |-> largest, count |-> count, err |-> TRUE]
        ELSE IF d.IsDir THEN walkCountsPacks(Tail(entries), largest, count)
        ELSE IF ~HasSuffix(d.Name, ".pack") THEN walkCountsPacks(Tail(entries), largest, count)
        ELSE IF d.InfoErr THEN [largestsize |-> largest, count |-> count + 1, err |-> TRUE]
        ELSE walkCountsPacks(Tail(entries), IF d.Size >= largest THEN d.Size ELSE largest,
                             count + 1)

RECURSIVE walk(_, _, _)
walk(entries, largest, count) ==
    IF entries = <<>> THEN [largestsize |-> largest, count |-> count, err |-> FALSE]
    ELSE LET d == Head(entries) IN
        IF d.WalkErr THEN [largestsize |-> largest, count |-> count, err |-> TRUE]
        ELSE IF d.IsDir THEN walk(Tail(entries), largest, count)
        ELSE IF ~HasSuffix(d.Name, ".pack") THEN walk(Tail(entries), largest, count + 1)
        ELSE IF d.InfoErr THEN [largestsize |-> largest, count |-> count + 1, err |-> TRUE]
        ELSE walk(Tail(entries), IF d.Size >= largest THEN d.Size ELSE largest, count + 1)

objects(tree) == walk(tree, 0, 0)

(* Mutation: the comparison with the threshold is >= instead of >. *)
ShouldRepackAtThreshold(size) == size >= PackThreshold

ShouldRepack(size) == size > PackThreshold

PackSizes == {PackThreshold - 1, PackThreshold, PackThreshold + 1}

(* repack: git repack --max-pack-size=95m, in bytes *)
RepackMaxPackSize == 95 * 1024 * 1024

Entries ==
    {DirEntry("objects", TRUE, 0, FALSE, FALSE),
     DirEntry("objects", TRUE, 0, TRUE, FALSE),
     DirEntry(".gitkeep", FALSE, 0, FALSE, FALSE),
     DirEntry("pack-1.idx", FALSE, PackThreshold + 1, FALSE, FALSE),
     DirEntry("pack-2.pack", FALSE, 0, FALSE, TRUE)}
    \cup {DirEntry("pack-1.pack", FALSE, n, FALSE, FALSE) : n \in PackSizes}

Trees == SeqsUpTo(Entries, MaxEntries)

----------------------------------------------------------------------------
(* remove runs rm -rf local; main ignores its error, so the path is gone    *)
(* only when the command succeeded.                                         *)

remove(dirs, local, ok) == IF ok THEN dirs \ {local} ELSE dirs

----------------------------------------------------------------------------
(* Inputs of the run model *)

RunRepos == {RepoA, RepoB}

FilteringConfig ==
    [Sources |-> <<Source("u1", "t1", <<>>, <<Remote(RepoB)>>),
                   Source("u2", "t2", <<Remote(RepoA)>>, <<>>)>>,
     Destination |-> "/dst"]

OpenConfig ==
    [Sources |-> <<Source("u1", "t1", <<>>, <<>>)>>,
     Destination |-> "/dst"]

Configs == {FilteringConfig, OpenConfig}

(* config.json may carry keys the Config struct has no field for, such as   *)
(* MaxPackSize; json.Unmarshal drops them.                                  *)
ConfiguredMaxPackSizes == {512 * 1024, 200 * 1024 * 1024}

ConfigFiles ==
    {[Sources |-> c.Sources, Destination |-> c.Destination, MaxPackSize |-> m] :
        c \in Configs, m \in ConfiguredMaxPackSizes}

loadConfig(f) == [Sources |-> f.Sources, Destination |-> f.Destination]

(* What getRepoPage returns: (repos, nil) or (nil, err) *)
PageOk(pageRepos) == [err |-> FALSE, repos |-> pageRepos]
PageErr == [err |-> TRUE, repos |-> <<>>]

(* In the run model a source has at most MaxRepos repositories. *)
RunResponses ==
    {PageOk(p) : p \in {q \in SeqsUpTo(RunRepos, MaxPageLen) : Len(repos) + Len(q) <= MaxRepos}}
    \cup {PageErr}

Results(ok) == IF ok THEN "ok" ELSE "err"

Call(op, res) == [op |-> op, res |-> res]

NoBefore == [stat |-> NewStat(0), fs |-> {}]

Init ==
    /\ config \in {loadConfig(f) : f \in ConfigFiles}
    /\ fs = {}
    /\ stats = <<>>
    /\ pc = "source"
    /\ src = 0
    /\ page = firstPage
    /\ repos = <<>>
    /\ idx = 0
    /\ largestsize = 0
    /\ url = ""
    /\ summary = <<>>
    /\ calls = <<>>
    /\ before = NoBefore
    /\ requests = <<>>
    /\ responses = <<>>
    /\ listing = <<>>
    /\ ended = {}

----------------------------------------------------------------------------
(* main: the loop over config.Sources *)

SourceStart ==
    /\ pc = "source"
    /\ src < Len(config.Sources)
    /\ src' = src + 1
    /\ stats' = Append(stats, NewStat(src + 1))
    /\ page' = firstPage
    /\ repos' = <<>>
    /\ requests' = <<>>
    /\ responses' = <<>>
    /\ pc' = "getRepo"
    /\ UNCHANGED <<config, fs, idx, largestsize, url, summary, calls, before, listing,
                   ended>>

SourcesDone ==
    /\ pc = "source"
    /\ src = Len(config.Sources)
    /\ pc' = "summary"
    /\ UNCHANGED <<config, fs, stats, ended, src, page, repos, idx, largestsize, url,
                   summary, calls, before, requests, responses, listing>>

----------------------------------------------------------------------------
(* getRepo: one step per getRepoPage request *)

(* Mutation: a page shorter than per_page ends the paging. *)
LastPageShort(pageRepos) == Len(pageRepos) < perPage

LastPage(pageRepos) == Len(pageRepos) = 0

NextPage(p) == p + 1

(* The remote API has no repositories left after MaxPages pages. *)
Answers(R) == IF page > MaxPages THEN {r \in R : r.err \/ r.repos = <<>>} ELSE R

Returned(res) == [res |-> res, asked |-> page]

Asked(r) ==
    /\ requests' = Append(requests, [page |-> page, perPage |-> perPage])
    /\ responses' = Append(responses, r)

(* Mutation: main ends the process when a source cannot be listed. *)
GetRepoFailFatal(R) ==
    /\ pc = "getRepo"
    /\ \E r \in Answers(R) :
        /\ r.err
        /\ Asked(r)
    /\ repos' = <<>>
    /\ listing' = Append(listing, Returned("err"))
    /\ pc' = "exit"
    /\ UNCHANGED <<config, fs, stats, ended, src, page, idx, largestsize, url, summary,
                   calls, before>>

GetRepoFail(R) ==
    /\ pc = "getRepo"
    /\ \E r \in Answers(R) :
        /\ r.err
        /\ Asked(r)
    /\ repos' = <<>>
    /\ listing' = Append(listing, Returned("err"))
    /\ pc' = "source"
    /\ UNCHANGED <<config, fs, stats, ended, src, page, idx, largestsize, url, summary,
                   calls, before>>

(* Mutation: the paging gives up after two pages and returns what it has. *)
GetRepoMoreCapped(R) ==
    /\ pc = "getRepo"
    /\ \E r \in Answers(R) :
        /\ ~r.err
        /\ ~LastPage(r.repos)
        /\ Asked(r)
        /\ repos' = repos \o r.repos
    /\ page' = NextPage(page)
    /\ pc' = IF page' > 2 THEN "loop" ELSE "getRepo"
    /\ UNCHANGED <<config, fs, stats, ended, src, idx, largestsize, url, summary, calls, before,
                   listing>>

GetRepoMore(R) ==
    /\ pc = "getRepo"
    /\ \E r \in Answers(R) :
        /\ ~r.err
        /\ ~LastPage(r.repos)
        /\ Asked(r)
        /\ repos' = repos \o r.repos
    /\ page' = NextPage(page)
    /\ UNCHANGED <<config, fs, stats, ended, pc, src, idx, largestsize, url, summary,
                   calls, before, listing>>

GetRepoDone(R) ==
    /\ pc = "getRepo"
    /\ \E r \in Answers(R) :
        /\ ~r.err
        /\ LastPage(r.repos)
        /\ Asked(r)
    /\ stats' = [stats EXCEPT ![src].Repos = repos]
    /\ listing' = Append(listing, Returned("ok"))
    /\ idx' = 0
    /\ pc' = "loop"
    /\ UNCHANGED <<config, fs, src, page, repos, largestsize, url, summary, calls, before,
                   ended>>

----------------------------------------------------------------------------
(* main: the loop over repos.  At pc = "loop" the next repository is        *)
(* repos[idx + 1]; at every later position the current one is repos[idx].   *)

(* The repository an outcome is counted for. *)
Current == IF pc = "loop" THEN repos[idx + 1] ELSE repos[idx]

Ended(local) == {e \in ended : e.local = local}

TimesMirrored(local) == IF Ended(local) = {} THEN 0 ELSE (CHOOSE e \in Ended(local) : TRUE).mirrored

(* History: the repository at hand was processed (not skipped) and counted. *)
Outcome(local, counter) ==
    [local |-> local, last |-> counter,
     mirrored |-> TimesMirrored(local) + (IF counter = "Mirrored" THEN 1 ELSE 0)]

Bump(counter) ==
    /\ stats' = [stats EXCEPT ![src][counter] = @ + 1]
    /\ ended' = IF counter = "Skipped" THEN ended
                ELSE (ended \ Ended(Local(Current))) \cup {Outcome(Local(Current), counter)}

(* An iteration begins: its locals are fresh, the histories start over. *)
Begin(firstCalls) ==
    /\ idx' = idx + 1
    /\ largestsize' = 0
    /\ before' = [stat |-> stats[src], fs |-> fs]
    /\ calls' = firstCalls
    /\ requests' = <<>>
    /\ responses' = <<>>

(* Mutation: the mirror of a repository that is filtered out is pruned. *)
LoopSkipPrunes ==
    /\ pc = "loop"
    /\ idx < Len(repos)
    /\ skip(config.Sources[src], Remote(repos[idx + 1]))
    /\ Begin(<<>>)
    /\ Bump("Skipped")
    /\ url' = ""
    /\ fs' = remove(fs, Local(repos[idx + 1]), TRUE)
    /\ UNCHANGED <<config, pc, src, page, repos, summary, listing>>

LoopSkip ==
    /\ pc = "loop"
    /\ idx < Len(repos)
    /\ skip(config.Sources[src], Remote(repos[idx + 1]))
    /\ Begin(<<>>)
    /\ Bump("Skipped")
    /\ url' = ""
    /\ UNCHANGED <<config, fs, pc, src, page, repos, summary, listing>>

(* Mutation: any error of os.Stat is taken as "does not exist". *)
StatFailClones ==
    /\ pc = "loop"
    /\ idx < Len(repos)
    /\ ~skip(config.Sources[src], Remote(repos[idx + 1]))
    /\ Begin(<<Call("stat", "err")>>)
    /\ url' = CloneURL(config.Sources[src], repos[idx + 1])
    /\ pc' = "clone"
    /\ UNCHANGED <<config, fs, stats, ended, src, page, repos, summary, listing>>

(* Mutation: main ends the process when os.Stat fails. *)
StatFailFatal ==
    /\ pc = "loop"
    /\ idx < Len(repos)
    /\ ~skip(config.Sources[src], Remote(repos[idx + 1]))
    /\ Begin(<<Call("stat", "err")>>)
    /\ Bump("Failed")
    /\ url' = ""
    /\ pc' = "exit"
    /\ UNCHANGED <<config, fs, src, page, repos, summary, listing>>

StatFail ==
    /\ pc = "loop"
    /\ idx < Len(repos)
    /\ ~skip(config.Sources[src], Remote(repos[idx + 1]))
    /\ Begin(<<Call("stat", "err")>>)
    /\ Bump("Failed")
    /\ url' = ""
    /\ UNCHANGED <<config, fs, pc, src, page, repos, summary, listing>>

(* Mutation: os.Stat is given a path that never exists. *)
StatNotExistAlways ==
    /\ pc = "loop"
    /\ idx < Len(repos)
    /\ ~skip(config.Sources[src], Remote(repos[idx + 1]))
    /\ Begin(<<Call("stat", "notexist")>>)
    /\ url' = CloneURL(config.Sources[src], repos[idx + 1])
    /\ pc' = "clone"
    /\ UNCHANGED <<config, fs, stats, ended, src, page, repos, summary, listing>>

StatNotExist ==
    /\ pc = "loop"
    /\ idx < Len(repos)
    /\ ~skip(config.Sources[src], Remote(repos[idx + 1]))
    /\ Local(repos[idx + 1]) \notin fs
    /\ Begin(<<Call("stat", "notexist")>>)
    /\ url' = CloneURL(config.Sources[src], repos[idx + 1])
    /\ pc' = "clone"
    /\ UNCHANGED <<config, fs, stats, ended, src, page, repos, summary, listing>>

(* Mutation: the existence test is inverted, an existing mirror is cloned. *)
StatExistClones ==
    /\ pc = "loop"
    /\ idx < Len(repos)
    /\ ~skip(config.Sources[src], Remote(repos[idx + 1]))
    /\ Local(repos[idx + 1]) \in fs
    /\ Begin(<<Call("stat", "ok")>>)
    /\ url' = CloneURL(config.Sources[src], repos[idx + 1])
    /\ pc' = "clone"
    /\ UNCHANGED <<config, fs, stats, ended, src, page, repos, summary, listing>>

StatExist ==
    /\ pc = "loop"
    /\ idx < Len(repos)
    /\ ~skip(config.Sources[src], Remote(repos[idx + 1]))
    /\ Local(repos[idx + 1]) \in fs
    /\ Begin(<<Call("stat", "ok")>>)
    /\ url' = ""
    /\ pc' = "updDisablegc"
    /\ UNCHANGED <<config, fs, stats, ended, src, page, repos, summary, listing>>

LoopEnd ==
    /\ pc = "loop"
    /\ idx = Len(repos)
    /\ pc' = "source"
    /\ largestsize' = 0
    /\ url' = ""
    /\ calls' = <<>>
    /\ before' = NoBefore
    /\ requests' = <<>>
    /\ responses' = <<>>
    /\ UNCHANGED <<config, fs, stats, ended, src, page, repos, idx, summary, listing>>

----------------------------------------------------------------------------
(* Clone path *)

(* A step succeeded: go on with the next step. *)
Proceed(op, next) ==
    /\ calls' = Append(calls, Call(op, "ok"))
    /\ pc' = next
    /\ UNCHANGED <<config, stats, ended, src, page, repos, idx, summary, before, requests,
                   responses, listing>>

(* A step failed with dirs on disk: remove(local), FailedMirror++, continue. *)
FailMirror(op, dirs) ==
    /\ \E rmOk \in BOOLEAN :
        /\ fs' = remove(dirs, Local(repos[idx]), rmOk)
        /\ calls' = calls \o <<Call(op, "err"), Call("remove", Results(rmOk))>>
    /\ Bump("FailedMirror")
    /\ pc' = "loop"
    /\ UNCHANGED <<config, src, page, repos, idx, largestsize, url, summary, before,
                   requests, responses, listing>>

CloneOk ==
    /\ pc = "clone"
    /\ fs' = fs \cup {Local(repos[idx])}
    /\ Proceed("clone", "disablegc")
    /\ UNCHANGED <<largestsize, url>>

(* A failed git clone may leave a partial directory behind. *)
CloneFail ==
    /\ pc = "clone"
    /\ \E partial \in BOOLEAN :
        FailMirror("clone", IF partial THEN fs \cup {Local(repos[idx])} ELSE fs)

DisablegcOk ==
    /\ pc = "disablegc"
    /\ Proceed("disablegc", "touch")
    /\ UNCHANGED <<fs, largestsize, url>>

DisablegcFail ==
    /\ pc = "disablegc"
    /\ FailMirror("disablegc", fs)

(* Mutation: the pack scan is left out, update follows touch. *)
TouchOkThenUpdate ==
    /\ pc = "touch"
    /\ Proceed("touch", "update")
    /\ UNCHANGED <<fs, largestsize, url>>

TouchOk ==
    /\ pc = "touch"
    /\ Proceed("touch", "objects")
    /\ UNCHANGED <<fs, largestsize, url>>

TouchFail ==
    /\ pc = "touch"
    /\ FailMirror("touch", fs)

ObjectsOk ==
    /\ pc = "objects"
    /\ \E tree \in Trees :
        /\ ~objects(tree).err
        /\ largestsize' = objects(tree).largestsize
    /\ Proceed("objects", IF ShouldRepack(largestsize') THEN "repack" ELSE "update")
    /\ UNCHANGED <<fs, url>>

ObjectsFail ==
    /\ pc = "objects"
    /\ \E tree \in Trees : objects(tree).err
    /\ FailMirror("objects", fs)

RepackOk ==
    /\ pc = "repack"
    /\ Proceed("repack", "update")
    /\ UNCHANGED <<fs, largestsize, url>>

RepackFail ==
    /\ pc = "repack"
    /\ FailMirror("repack", fs)

UpdateOk ==
    /\ pc = "update"
    /\ calls' = Append(calls, Call("update", "ok"))
    /\ Bump("Mirrored")
    /\ pc' = "loop"
    /\ UNCHANGED <<config, fs, src, page, repos, idx, largestsize, url, summary, before,
                   requests, responses, listing>>

UpdateFail ==
    /\ pc = "update"
    /\ FailMirror("update", fs)

----------------------------------------------------------------------------
(* Update path *)

FailUpdate(op) ==
    /\ calls' = Append(calls, Call(op, "err"))
    /\ Bump("FailedUpdate")
    /\ pc' = "loop"
    /\ UNCHANGED <<config, fs, src, page, repos, idx, largestsize, url, summary, before,
                   requests, responses, listing>>

(* Mutation: the update path goes through the pack scan as well. *)
UpdDisablegcOkThenScan ==
    /\ pc = "updDisablegc"
    /\ Proceed("disablegc", "objects")
    /\ UNCHANGED <<fs, largestsize, url>>

UpdDisablegcOk ==
    /\ pc = "updDisablegc"
    /\ Proceed("disablegc", "updUpdate")
    /\ UNCHANGED <<fs, largestsize, url>>

(* Mutation: the continue after the failed disablegc is missing. *)
UpdDisablegcFailNoContinue ==
    /\ pc = "updDisablegc"
    /\ calls' = Append(calls, Call("disablegc", "err"))
    /\ Bump("FailedUpdate")
    /\ pc' = "updUpdate"
    /\ UNCHANGED <<config, fs, src, page, repos, idx, largestsize, url, summary, before,
                   requests, responses, listing>>

UpdDisablegcFail ==
    /\ pc = "updDisablegc"
    /\ FailUpdate("disablegc")

UpdUpdateOk ==
    /\ pc = "updUpdate"
    /\ calls' = Append(calls, Call("update", "ok"))
    /\ Bump("Updated")
    /\ pc' = "loop"
    /\ UNCHANGED <<config, fs, src, page, repos, idx, largestsize, url, summary, before,
                   requests, responses, listing>>

(* Mutation: the update path cleans up like the clone path. *)
UpdUpdateFailRemoves ==
    /\ pc = "updUpdate"
    /\ \E rmOk \in BOOLEAN :
        /\ fs' = remove(fs, Local(repos[idx]), rmOk)
        /\ calls' = calls \o <<Call("update", "err"), Call("remove", Results(rmOk))>>
    /\ Bump("FailedUpdate")
    /\ pc' = "loop"
    /\ UNCHANGED <<config, src, page, repos, idx, largestsize, url, summary, before,
                   requests, responses, listing>>

UpdUpdateFail ==
    /\ pc = "updUpdate"
    /\ FailUpdate("update")

----------------------------------------------------------------------------
(* The summary loop over stats, and the next invocation of the program *)

SummaryLine(stat) ==
    [Username |-> config.Sources[stat.Source].Username, repos |-> Len(stat.Repos),
     skipped |-> stat.Skipped, mirrored |-> stat.Mirrored, updated |-> stat.Updated,
     failed |-> stat.Failed, failed_mirror |-> stat.FailedMirror,
     failed_update |-> stat.FailedUpdate]

Summary ==
    /\ pc = "summary"
    /\ Len(summary) < Len(stats)
    /\ summary' = Append(summary, SummaryLine(stats[Len(summary) + 1]))
    /\ UNCHANGED <<config, fs, stats, ended, pc, src, page, repos, idx, largestsize, url,
                   calls, before, requests, responses, listing>>

SummaryDone ==
    /\ pc = "summary"
    /\ Len(summary) = Len(stats)
    /\ pc' = "done"
    /\ UNCHANGED <<config, fs, stats, ended, src, page, repos, idx, largestsize, url,
                   summary, calls, before, requests, responses, listing>>

(* The process has exited; the program is run again on the same disk. *)
Rerun ==
    /\ pc = "done"
    /\ stats' = <<>>
    /\ pc' = "source"
    /\ src' = 0
    /\ page' = firstPage
    /\ repos' = <<>>
    /\ idx' = 0
    /\ largestsize' = 0
    /\ url' = ""
    /\ summary' = <<>>
    /\ calls' = <<>>
    /\ before' = NoBefore
    /\ requests' = <<>>
    /\ responses' = <<>>
    /\ listing' = <<>>
    /\ ended' = {}
    /\ UNCHANGED <<config, fs>>

----------------------------------------------------------------------------

Next ==
    \/ SourceStart
    \/ SourcesDone
    \/ GetRepoFail(RunResponses)
    \/ GetRepoMore(RunResponses)
    \/ GetRepoDone(RunResponses)
    \/ LoopSkip
    \/ StatFail
    \/ StatNotExist
    \/ StatExist
    \/ LoopEnd
    \/ CloneOk
    \/ CloneFail
    \/ DisablegcOk
    \/ DisablegcFail
    \/ TouchOk
    \/ TouchFail
    \/ ObjectsOk
    \/ ObjectsFail
    \/ RepackOk
    \/ RepackFail
    \/ UpdateOk
    \/ UpdateFail
    \/ UpdDisablegcOk
    \/ UpdDisablegcFail
    \/ UpdUpdateOk
    \/ UpdUpdateFail
    \/ Summary
    \/ SummaryDone
    \/ Rerun

Spec == Init /\ [][Next]_vars

----------------------------------------------------------------------------
(* The filter on its own: main has just listed one repository of a single   *)
(* source whose Include and Exclude lists are drawn from all short lists.   *)

FilterRepos == {RepoA, RepoB, RepoC}

FilterURLs == {Remote(r) : r \in FilterRepos}

FilterLists == SeqsUpTo(FilterURLs, MaxListLen)

InitSkip ==
    /\ \E include \in FilterLists, exclude \in FilterLists :
        config = [Sources |-> <<Source("u1", "t1", include, exclude)>>,
                  Destination |-> "/dst"]
    /\ \E r \in FilterRepos :
        /\ repos = <<r>>
        /\ stats = <<[NewStat(1) EXCEPT !.Repos = <<r>>]>>
        /\ requests = <<[page |-> 1, perPage |-> perPage], [page |-> 2, perPage |-> perPage]>>
        /\ responses = <<PageOk(<<r>>), PageOk(<<>>)>>
        /\ fs \in SUBSET {Local(r)}
    /\ listing = <<[res |-> "ok", asked |-> 2]>>
    /\ ended = {}
    /\ pc = "loop"
    /\ src = 1
    /\ page = 2
    /\ idx = 0
    /\ largestsize = 0
    /\ url = ""
    /\ summary = <<>>
    /\ calls = <<>>
    /\ before = NoBefore

NextSkip ==
    \/ LoopSkip
    \/ StatFail
    \/ StatNotExist
    \/ StatExist

SpecSkip == InitSkip /\ [][NextSkip]_vars

----------------------------------------------------------------------------
(* The lister on its own: main has entered its single source and calls      *)
(* getRepo against an API that also serves full pages.                      *)

FullPage(n) == [i \in 1..n |-> Repo("o/r" \o ToString(i), FALSE)]

ListPages == {<<>>, <<RepoA>>, <<RepoA, RepoB>>, FullPage(37), FullPage(perPage)}

ListResponses == {PageOk(p) : p \in ListPages} \cup {PageErr}

InitList ==
    /\ config = [Sources |-> <<Source("u1", "t1", <<>>, <<>>)>>, Destination |-> "/dst"]
    /\ fs = {}
    /\ stats = <<NewStat(1)>>
    /\ pc = "getRepo"
    /\ src = 1
    /\ page = firstPage
    /\ repos = <<>>
    /\ idx = 0
    /\ largestsize = 0
    /\ url = ""
    /\ summary = <<>>
    /\ calls = <<>>
    /\ before = NoBefore
    /\ requests = <<>>
    /\ responses = <<>>
    /\ listing = <<>>
    /\ ended = {}

NextList ==
    \/ GetRepoFail(ListResponses)
    \/ GetRepoMore(ListResponses)
    \/ GetRepoDone(ListResponses)

SpecList == InitList /\ [][NextList]_vars

----------------------------------------------------------------------------
(* getRepo against a remote API that need not run out of repositories: the  *)
(* first of two sources is being listed, every answer is possible for every *)
(* page, and the model follows the paging for MaxPages requests.            *)

OpenEndedResponses == IF page > MaxPages THEN {} ELSE ListResponses

InitEndless ==
    /\ config = [Sources |-> <<Source("u1", "t1", <<>>, <<>>), Source("u2", "t2", <<>>, <<>>)>>,
                 Destination |-> "/dst"]
    /\ fs = {}
    /\ stats = <<NewStat(1)>>
    /\ pc = "getRepo"
    /\ src = 1
    /\ page = firstPage
    /\ repos = <<>>
    /\ idx = 0
    /\ largestsize = 0
    /\ url = ""
    /\ summary = <<>>
    /\ calls = <<>>
    /\ before = NoBefore
    /\ requests = <<>>
    /\ responses = <<>>
    /\ listing = <<>>
    /\ ended = {}

NextEndless ==
    \/ GetRepoFail(OpenEndedResponses)
    \/ GetRepoMore(OpenEndedResponses)
    \/ GetRepoDone(OpenEndedResponses)

SpecEndless == InitEndless /\ [][NextEndless]_vars

----------------------------------------------------------------------------
(* The pack scan on its own: main has cloned a repository of an unfiltered  *)
(* source, disabled gc and touched the markers, and is about to call        *)
(* objects(local); an earlier repository of the listing, if any, had its    *)
(* mirror and was updated.                                                  *)

ScanListings == {l \in SeqsUpTo(RunRepos, 2) : l # <<>> /\ (Len(l) = 2 => l[1] # l[2])}

InitPack ==
    /\ config = OpenConfig
    /\ \E l \in ScanListings, i \in 1..2 :
        /\ i <= Len(l)
        /\ repos = l
        /\ idx = i
        /\ before = [stat |-> [NewStat(1) EXCEPT !.Repos = l, !.Updated = i - 1],
                     fs |-> {Local(l[j]) : j \in 1..(i - 1)}]
        /\ stats = <<before.stat>>
        /\ fs = before.fs \cup {Local(l[i])}
        /\ url = CloneURL(config.Sources[1], l[i])
        /\ ended = {[local |-> Local(l[j]), last |-> "Updated", mirrored |-> 0] : j \in 1..(i - 1)}
    /\ calls = <<Call("stat", "notexist"), Call("clone", "ok"), Call("disablegc", "ok"),
                 Call("touch", "ok")>>
    /\ listing = <<[res |-> "ok", asked |-> 2]>>
    /\ pc = "objects"
    /\ src = 1
    /\ page = 2
    /\ largestsize = 0
    /\ summary = <<>>
    /\ requests = <<>>
    /\ responses = <<>>

NextPack ==
    \/ ObjectsOk
    \/ ObjectsFail
    \/ RepackOk
    \/ RepackFail
    \/ UpdateOk
    \/ UpdateFail

SpecPack == InitPack /\ [][NextPack]_vars

----------------------------------------------------------------------------
(* Vocabulary of the properties *)

Sum(stat) ==
    stat.Skipped + stat.Mirrored + stat.Updated + stat.Failed + stat.FailedMirror
    + stat.FailedUpdate

(* What the current repository has added to a counter so far. *)
Delta(counter) == stats[src][counter] - before.stat[counter]

OnlyBumped(counter) ==
    /\ Delta(counter) = 1
    /\ \A other \in Counters \ {counter} : Delta(other) = 0

(* The iteration of repos[idx] has ended and the next has not begun. *)
RepoEnded == pc = "loop" /\ idx > 0

InRepo == pc \in {"clone", "disablegc", "touch", "objects", "repack", "update",
                  "updDisablegc", "updUpdate"}

Called(op) == \E i \in 1..Len(calls) : calls[i].op = op

CalledWith(op, res) == \E i \in 1..Len(calls) : calls[i] = Call(op, res)

Participates == ~skip(config.Sources[src], Remote(repos[idx]))

(* The source loop has left source s. *)
SourceEnded(s) == s < src \/ (s = src /\ pc \in {"source", "summary", "done"})

----------------------------------------------------------------------------
(* C1: every repository of a successfully listed source adds exactly 1 to   *)
(* exactly one of the six counters, whatever the filter, stat and command   *)
(* results are; so the counters of the source being processed sum to the    *)
(* number of repositories done, and at the end to the number listed.        *)
OneCounterPerRepo ==
    /\ RepoEnded => \E counter \in Counters : OnlyBumped(counter)
    /\ InRepo => \A counter \in Counters : Delta(counter) = 0
    /\ pc = "loop" => Sum(stats[src]) = idx
    /\ \A s \in 1..Len(listing) :
        listing[s].res = "ok" /\ SourceEnded(s) => Sum(stats[s]) = Len(stats[s].Repos)

OneCounterPerRepoWitness ==
    /\ pc = "done"
    /\ \E s \in 1..Len(stats) :
        /\ listing[s].res = "ok"
        /\ Len(stats[s].Repos) = 2
        /\ stats[s].Mirrored = 1
        /\ stats[s].FailedUpdate = 1

(* C2: when clone fails for a repository whose local path was absent, at    *)
(* the end of its iteration the local path does not exist, FailedMirror has *)
(* gone up by one and no other counter has changed.                         *)
CloneFailureLeavesNothing ==
    RepoEnded /\ Local(repos[idx]) \notin before.fs /\ CalledWith("clone", "err") =>
        /\ Local(repos[idx]) \notin fs
        /\ OnlyBumped("FailedMirror")

(* C3: a participating repository whose local mirror exists, processed with *)
(* every call succeeding, ends as Updated, with no clone and no remove and  *)
(* the local path still there: so the next time it is processed the same    *)
(* conditions hold again.                                                   *)
AllCallsOk == calls # <<>> /\ \A i \in 1..Len(calls) : calls[i].res = "ok"

UpdateIsIdempotent ==
    /\ RepoEnded /\ Participates /\ Local(repos[idx]) \in before.fs /\ AllCallsOk =>
        /\ OnlyBumped("Updated")
        /\ ~Called("clone")
        /\ ~Called("remove")
        /\ fs = before.fs
    /\ pc \in {"updDisablegc", "updUpdate"} => ~Called("clone") /\ fs = before.fs

UpdateIsIdempotentWitness ==
    /\ RepoEnded
    /\ idx = 2
    /\ repos[1] = repos[2]
    /\ stats[src].Updated = 2
    /\ ~Called("clone")
    /\ Local(repos[idx]) \in fs

(* C4: skip(source, url) is true exactly when the Include list is not      *)
(* empty and lacks url, or the Exclude list has url; the repository at hand *)
(* is counted as Skipped exactly in that case.                              *)
Policy(source, remote) ==
    \/ source.Include # <<>> /\ remote \notin Range(source.Include)
    \/ remote \in Range(source.Exclude)

SkipFollowsPolicy ==
    /\ \A remote \in FilterURLs :
        skip(config.Sources[1], remote) <=> Policy(config.Sources[1], remote)
    /\ idx = 1 => (stats[1].Skipped = 1 <=> Policy(config.Sources[1], Remote(repos[1])))
    /\ idx = 1 => (calls = <<>> <=> Policy(config.Sources[1], Remote(repos[1])))

(* The repository is in both lists, and has been skipped. *)
SkipFollowsPolicyWitness ==
    /\ idx = 1
    /\ stats[1].Skipped = 1
    /\ Remote(repos[1]) \in Range(config.Sources[1].Include)
    /\ Remote(repos[1]) \in Range(config.Sources[1].Exclude)
    /\ Len(config.Sources[1].Include) = 2

(* C5, as claimed: after a successful pack scan on the clone path, repack   *)
(* is invoked exactly when the largest pack file is at or above 95 MiB.     *)
RepackInvoked == pc = "repack" \/ Called("repack")

Scanned == CalledWith("objects", "ok")

RepackAtOrAboveThreshold ==
    Scanned => (RepackInvoked <=> largestsize >= 95 * 1024 * 1024)

(* C5, amended: after a successful pack scan on the clone path, repack is   *)
(* invoked exactly when the largest pack file exceeds 95 MiB; a mirror      *)
(* whose largest pack file is 95 MiB or less is not repacked, and repack is *)
(* never invoked without a successful scan.                                 *)
RepackAboveThreshold ==
    /\ Scanned => (RepackInvoked <=> largestsize > 95 * 1024 * 1024)
    /\ RepackInvoked => Scanned

(* A mirror whose largest pack file is exactly 95 MiB was mirrored without  *)
(* a repack.                                                                *)
RepackAboveThresholdWitness ==
    /\ RepoEnded
    /\ Scanned
    /\ largestsize = 95 * 1024 * 1024
    /\ ~Called("repack")
    /\ OnlyBumped("Mirrored")

(* C6: when getRepo returns without error after k responses, it has asked   *)
(* for pages 1..k in this order, each with per_page = 100, the k-th         *)
(* response is the first empty one, and the result is the concatenation of  *)
(* pages 1..k-1; while it runs it has asked for pages 1..page-1 only.       *)
RECURSIVE Concat(_)
Concat(pages) == IF pages = <<>> THEN <<>> ELSE Head(pages).repos \o Concat(Tail(pages))

PagesAsked(k) == [i \in 1..k |-> [page |-> i, perPage |-> 100]]

Listed == pc = "loop" /\ idx = 0

PagingStopsAtFirstEmptyPage ==
    /\ Len(requests) = Len(responses)
    /\ pc = "getRepo" =>
        /\ requests = PagesAsked(page - 1)
        /\ \A i \in 1..Len(responses) : ~responses[i].err /\ responses[i].repos # <<>>
        /\ repos = Concat(responses)
    /\ Listed =>
        LET k == Len(responses) IN
        /\ k >= 1
        /\ requests = PagesAsked(k)
        /\ responses[k] = PageOk(<<>>)
        /\ \A i \in 1..(k - 1) : ~responses[i].err /\ responses[i].repos # <<>>
        /\ repos = Concat(SubSeq(responses, 1, k - 1))
        /\ stats[src].Repos = repos

(* Pages of 100, 100, 37 and 0 repositories: 237 repositories, 4 requests. *)
PagingStopsAtFirstEmptyPageWitness ==
    /\ Listed
    /\ Len(responses) = 4
    /\ Len(responses[1].repos) = 100
    /\ Len(responses[2].repos) = 100
    /\ Len(responses[3].repos) = 37
    /\ Len(stats[src].Repos) = 237
    /\ Len(requests) = 4

(* C7: when a page request of a source fails, also after earlier pages      *)
(* succeeded, no repository of that source is processed: the pages fetched  *)
(* are dropped, the six counters of the source stay 0 and its summary line  *)
(* reports 0 repositories; main goes on to the next source, so once the     *)
(* source loop is over getRepo has been called for every configured source *)
(* and the repositories of those listed are all processed.                  *)
ListingFailureSkipsSource ==
    /\ \A s \in 1..Len(listing) :
        listing[s].res = "err" =>
            /\ stats[s] = NewStat(s)
            /\ s = src => pc \in {"source", "summary", "done"} /\ repos = <<>>
            /\ s <= Len(summary) => summary[s].repos = 0
    /\ pc \in {"summary", "done"} =>
        /\ Len(listing) = Len(config.Sources)
        /\ \A s \in 1..Len(listing) :
            listing[s].res = "ok" => Sum(stats[s]) = Len(stats[s].Repos)

(* The first source failed on its second page, the second was mirrored. *)
ListingFailureSkipsSourceWitness ==
    /\ pc = "done"
    /\ Len(stats) = 2
    /\ listing[1] = [res |-> "err", asked |-> 2]
    /\ listing[2].res = "ok"
    /\ stats[2].Mirrored = 1
    /\ summary[1].repos = 0

(* C8: on the update path a failure of disablegc or of update adds 1 to     *)
(* FailedUpdate and to nothing else, never invokes remove and leaves the    *)
(* disk as it was; after a failed disablegc, update is not invoked.         *)
OnUpdatePath == calls # <<>> /\ calls[1] = Call("stat", "ok")

UpdateFailureKeepsMirror ==
    /\ OnUpdatePath => ~Called("remove") /\ ~Called("clone") /\ fs = before.fs
    /\ OnUpdatePath /\ (\E i \in 1..Len(calls) : calls[i].res = "err") =>
        /\ RepoEnded
        /\ OnlyBumped("FailedUpdate")
        /\ Local(repos[idx]) \in fs
    /\ OnUpdatePath /\ CalledWith("disablegc", "err") => ~Called("update")

UpdateFailureKeepsMirrorWitness ==
    /\ RepoEnded
    /\ calls = <<Call("stat", "ok"), Call("disablegc", "err")>>
    /\ OnlyBumped("FailedUpdate")
    /\ Local(repos[idx]) \in fs

(* C9: when the existence check fails with an error other than "does not    *)
(* exist", Failed goes up by one, no other counter changes, nothing else is *)
(* invoked for the repository and the disk is untouched; main is back at    *)
(* the head of the loop.                                                    *)
StatErrorCountsFailed ==
    calls # <<>> /\ calls[1] = Call("stat", "err") =>
        /\ RepoEnded
        /\ calls = <<Call("stat", "err")>>
        /\ OnlyBumped("Failed")
        /\ fs = before.fs

(* The first of two repositories failed its existence check; the second is  *)
(* still to be processed.                                                   *)
StatErrorCountsFailedWitness ==
    /\ RepoEnded
    /\ calls = <<Call("stat", "err")>>
    /\ idx = 1
    /\ Len(repos) = 2
    /\ stats[src].Failed = 1

----------------------------------------------------------------------------
(* Every page request and every external command returns, and main is       *)
(* sequential: whatever step is enabled is eventually taken.                *)
FairSpec == Spec /\ WF_vars(Next)

(* C10: every run, whatever fails in it, reaches the end of the summary     *)
(* loop with exactly one summary line per configured source, in the order   *)
(* of the configuration, the sources whose listing failed included, and     *)
(* with every repository of each listed source counted.                     *)
RunStarted == pc = "source" /\ src = 0

RunSummarised ==
    /\ pc = "done"
    /\ Len(summary) = Len(config.Sources)
    /\ \A s \in 1..Len(summary) :
        /\ summary[s].Username = config.Sources[s].Username
        /\ summary[s] = SummaryLine(stats[s])
        /\ listing[s].res = "ok" => Sum(stats[s]) = summary[s].repos
        /\ listing[s].res = "err" => Sum(stats[s]) = 0 /\ summary[s].repos = 0

FailuresNeverEndTheRun == RunStarted ~> RunSummarised

(* A run is over whose first source could not be listed and whose second    *)
(* had a failed existence check and a failed mirror.                        *)
FailuresNeverEndTheRunWitness ==
    /\ RunSummarised
    /\ Len(summary) = 2
    /\ listing[1].res = "err"
    /\ stats[2].Failed = 1
    /\ stats[2].FailedMirror = 1

----------------------------------------------------------------------------
(* C11: no step of a repository is attempted again within a run (each call  *)
(* is made at most once, and after a failed call only remove follows); the  *)
(* path a repository takes is decided by the disk alone; and when the run   *)
(* is over, a local path whose last outcome was FailedMirror is absent, so  *)
(* the next run clones it from scratch, and one whose last outcome was      *)
(* FailedUpdate is present, so the next run updates it.                     *)
EndedAs(counter) == {e.local : e \in {x \in ended : x.last = counter}}

OnClonePath == calls # <<>> /\ calls[1] = Call("stat", "notexist")

RetriedOnlyOnNextRun ==
    /\ \A i, j \in 1..Len(calls) : calls[i].op = calls[j].op => i = j
    /\ \A i \in 1..Len(calls) :
        calls[i].res = "err" =>
            /\ RepoEnded
            /\ \A j \in (i + 1)..Len(calls) : j = i + 1 /\ calls[j].op = "remove"
    /\ InRepo => (OnClonePath <=> Local(repos[idx]) \notin before.fs)
    /\ pc = "done" =>
        /\ \A local \in EndedAs("FailedMirror") : local \notin fs
        /\ \A local \in EndedAs("FailedUpdate") : local \in fs

(* C12: when the configuration file sets MaxPackSize below 1 MiB, the       *)
(* threshold of the repack decision and the max-pack-size given to repack   *)
(* are 1 MiB: after a successful scan repack is invoked exactly when the    *)
(* largest pack file exceeds 1 MiB, and it repacks to packs of 1 MiB.       *)
ThresholdFloor ==
    \A f \in ConfigFiles :
        loadConfig(f) = config /\ f.MaxPackSize < 1024 * 1024 =>
            /\ Scanned => (RepackInvoked <=> largestsize > 1024 * 1024)
            /\ RepackInvoked => RepackMaxPackSize = 1024 * 1024

(* C13: when a step after a successful clone fails (disablegc, touch,       *)
(* objects, repack or update on the clone path), remove is invoked on the   *)
(* local path and nothing after it, FailedMirror goes up by one and no      *)
(* other counter changes, and the local directory is absent; so whenever a  *)
(* cloned repository has been counted FailedMirror its local directory is   *)
(* absent.                                                                  *)
StepsAfterClone == {"disablegc", "touch", "objects", "repack", "update"}

FailedMirrorLeavesNothing ==
    /\ \A i \in 1..Len(calls) :
        CalledWith("clone", "ok") /\ calls[i].op \in StepsAfterClone /\ calls[i].res = "err" =>
            /\ RepoEnded
            /\ Len(calls) = i + 1
            /\ calls[i + 1].op = "remove"
            /\ OnlyBumped("FailedMirror")
            /\ Local(repos[idx]) \notin fs
    /\ RepoEnded /\ CalledWith("clone", "ok") /\ OnlyBumped("FailedMirror") =>
        Local(repos[idx]) \notin fs

(* C14: on the clone path the calls are made in the order stat, clone,      *)
(* disablegc, touch, objects, repack (only when the largest pack file       *)
(* exceeds 95 MiB), update, each at most once, and only a remove follows a  *)
(* failed one; Mirrored goes up only when all of them were invoked and      *)
(* succeeded, update last, and then the local directory is present.         *)
ClonePathSteps(repacks) ==
    <<"stat", "clone", "disablegc", "touch", "objects">>
    \o (IF repacks THEN <<"repack">> ELSE <<>>) \o <<"update">>

(* The calls of the current repository but the trailing remove *)
Invoked == SelectSeq(calls, LAMBDA c : c.op # "remove")

ClonePathInOrder ==
    /\ OnClonePath =>
        /\ \E repacks \in BOOLEAN :
            /\ Len(Invoked) <= Len(ClonePathSteps(repacks))
            /\ \A i \in 1..Len(Invoked) : Invoked[i].op = ClonePathSteps(repacks)[i]
        /\ Called("repack") => Scanned /\ largestsize > 95 * 1024 * 1024
        /\ Called("update") /\ ~Called("repack") => largestsize <= 95 * 1024 * 1024
    /\ InRepo => Delta("Mirrored") = 0
    /\ RepoEnded /\ Delta("Mirrored") # 0 =>
        /\ OnlyBumped("Mirrored")
        /\ OnClonePath
        /\ \A i \in 1..Len(calls) : calls[i].res = (IF i = 1 THEN "notexist" ELSE "ok")
        /\ Len(calls) = Len(ClonePathSteps(Called("repack")))
        /\ calls[Len(calls)].op = "update"
        /\ Local(repos[idx]) \in fs

(* A repository was mirrored with a repack between the scan and the update. *)
ClonePathInOrderWitness ==
    /\ RepoEnded
    /\ OnlyBumped("Mirrored")
    /\ [i \in 1..Len(calls) |-> calls[i].op] = ClonePathSteps(TRUE)
    /\ Local(repos[idx]) \in fs

(* C15: the URL clone is invoked with is                                    *)
(* https://<username>:<token>@github.com/<full-name>.git when the           *)
(* repository is private and the plain remote URL otherwise; whether a      *)
(* repository is skipped is decided by the filter applied to the plain      *)
(* remote URL, private or not.                                              *)
Authenticated(source, repo) ==
    "https://" \o source.Username \o ":" \o source.Token \o "@github.com/"
    \o repo.FullName \o ".git"

Plain(repo) == "https://github.com/" \o repo.FullName \o ".git"

CredentialsOnlyForPrivate ==
    /\ pc = "clone" \/ Called("clone") =>
        /\ repos[idx].Private => url = Authenticated(config.Sources[src], repos[idx])
        /\ ~repos[idx].Private => url = Plain(repos[idx])
        /\ url = Authenticated(config.Sources[src], repos[idx]) <=> repos[idx].Private
    /\ RepoEnded =>
        (Delta("Skipped") = 1 <=> Policy(config.Sources[src], Plain(repos[idx])))

(* A private repository was cloned with the credentials of its source. *)
CredentialsOnlyForPrivateWitness ==
    /\ CalledWith("clone", "ok")
    /\ repos[idx].Private
    /\ url = "https://u1:t1@github.com/o/b.git"

(* C16: for every tree under <local>/objects, objects fails exactly when    *)
(* the walk reports an error or the file info of a visited pack file cannot *)
(* be read; otherwise largestsize is the maximum size of the files named    *)
(* *.pack, 0 when there is none, and count the number of entries that are   *)
(* not directories.  main's largestsize is such a result, and a failed scan *)
(* ends the repository as a clone-path failure: remove, FailedMirror up by  *)
(* one, neither repack nor update.                                          *)
IsPack(d) == ~d.IsDir /\ Len(d.Name) >= 5 /\ SubSeq(d.Name, Len(d.Name) - 4, Len(d.Name)) = ".pack"

ScanFails(tree) == \E i \in 1..Len(tree) : tree[i].WalkErr \/ (IsPack(tree[i]) /\ tree[i].InfoErr)

LargestPack(tree) ==
    LET sizes == {tree[i].Size : i \in {j \in 1..Len(tree) : IsPack(tree[j])}} \cup {0}
    IN CHOOSE n \in sizes : \A m \in sizes : m <= n

Files(tree) == Cardinality({i \in 1..Len(tree) : ~tree[i].IsDir})

ObjectsFindsLargestPack ==
    /\ \A tree \in Trees :
        /\ objects(tree).err <=> ScanFails(tree)
        /\ ~ScanFails(tree) =>
            /\ objects(tree).largestsize = LargestPack(tree)
            /\ objects(tree).count = Files(tree)
    /\ Scanned => \E tree \in Trees : ~ScanFails(tree) /\ largestsize = LargestPack(tree)
    /\ CalledWith("objects", "err") =>
        /\ RepoEnded
        /\ calls[Len(calls)].op = "remove"
        /\ OnlyBumped("FailedMirror")
        /\ ~Called("repack")
        /\ ~Called("update")

(* A scan failed at the info of a pack file that follows a plain file, and  *)
(* the repository has been counted as a failed mirror.                      *)
ObjectsFindsLargestPackWitness ==
    /\ CalledWith("objects", "err")
    /\ OnlyBumped("FailedMirror")
    /\ \E tree \in Trees :
        /\ Len(tree) = 2
        /\ ~tree[1].IsDir
        /\ IsPack(tree[2])
        /\ tree[2].InfoErr
        /\ objects(tree) = [largestsize |-> 0, count |-> 2, err |-> TRUE]

(* C17: the pack scan and repack belong to the clone path alone: for a      *)
(* repository whose local mirror exists nothing but stat, disablegc and     *)
(* update is ever invoked, main is never at the scan or at repack, and      *)
(* largestsize is never set.                                                *)
ScanOnlyOnClonePath ==
    /\ OnUpdatePath =>
        /\ \A i \in 1..Len(calls) : calls[i].op \in {"stat", "disablegc", "update"}
        /\ pc \notin {"objects", "repack"}
        /\ largestsize = 0
    /\ pc \in {"objects", "repack"} \/ Called("objects") \/ Called("repack") => OnClonePath

(* An existing mirror has been updated. *)
ScanOnlyOnClonePathWitness ==
    /\ RepoEnded
    /\ calls = <<Call("stat", "ok"), Call("disablegc", "ok"), Call("update", "ok")>>
    /\ OnlyBumped("Updated")
    /\ Local(repos[idx]) \in before.fs

(* C18: a repository the filter rejects only adds 1 to Skipped: no call is  *)
(* made for it (no stat, clone, disablegc, touch, objects, repack, update   *)
(* or remove), no other counter changes, and the disk is as it was, also    *)
(* when the repository has a local mirror.                                  *)
SkippedHasNoEffect ==
    idx = 1 /\ Policy(config.Sources[1], Remote(repos[1])) =>
        /\ pc = "loop"
        /\ calls = <<>>
        /\ OnlyBumped("Skipped")
        /\ fs = before.fs
        /\ url = ""
        /\ largestsize = 0

(* A repository with a local mirror has been skipped. *)
SkippedHasNoEffectWitness ==
    /\ idx = 1
    /\ stats[1].Skipped = 1
    /\ Local(repos[1]) \in fs
    /\ Remote(repos[1]) \in Range(config.Sources[1].Exclude)

(* C19, as claimed: within a run a local path is counted Mirrored at most   *)
(* once and is on disk from then on, and every later occurrence of its      *)
(* repository takes the update path.                                        *)
MirroredInRun == {e.local : e \in {x \in ended : x.mirrored > 0}}

(* The repository at hand comes after an occurrence counted Mirrored. *)
AfterMirrored ==
    /\ InRepo \/ RepoEnded
    /\ Local(repos[idx]) \in MirroredInRun
    /\ Delta("Mirrored") = 0

MirroredThenAlwaysUpdated ==
    /\ \A e \in ended : e.mirrored <= 1
    /\ \A local \in MirroredInRun : local \in fs
    /\ AfterMirrored => OnUpdatePath

(* C19, amended: within a run a local path is counted Mirrored at most once *)
(* and is on disk from then on; a later occurrence of its repository never  *)
(* takes the clone path: it is skipped by the filter of its source, or      *)
(* counted Failed when the existence check fails, or takes the update path. *)
MirroredNeverClonedAgain ==
    /\ \A e \in ended : e.mirrored <= 1
    /\ \A local \in MirroredInRun : local \in fs
    /\ AfterMirrored =>
        /\ ~OnClonePath
        /\ ~Called("clone")
        /\ ~Called("remove")
        /\ OnUpdatePath \/ calls = <<>> \/ calls = <<Call("stat", "err")>>
        /\ calls = <<>> <=> Policy(config.Sources[src], Remote(repos[idx]))

(* The second occurrence of a repository in a listing was updated after the *)
(* first was mirrored.                                                      *)
MirroredNeverClonedAgainWitness ==
    /\ RepoEnded
    /\ idx = 2
    /\ repos[1] = repos[2]
    /\ stats[src].Mirrored = 1
    /\ OnUpdatePath
    /\ OnlyBumped("Updated")

(* C20: getRepo has returned exactly when a page request has been answered  *)
(* with an empty page or an error, and then that answer is its last one;    *)
(* as long as every answer is a non-empty page it goes on to the next page, *)
(* and main has processed no repository of the source and has not entered   *)
(* a later source.                                                          *)
Stops == {i \in 1..Len(responses) : responses[i].err \/ responses[i].repos = <<>>}

GetRepoReturnsOnlyOnEmptyOrError ==
    /\ pc = "getRepo" <=> Stops = {}
    /\ pc # "getRepo" => Stops = {Len(responses)} /\ Len(listing) = 1
    /\ pc = "getRepo" =>
        /\ page = Len(responses) + 1
        /\ Len(requests) = Len(responses)
        /\ listing = <<>>
        /\ src = 1
        /\ stats = <<NewStat(1)>>
        /\ idx = 0
        /\ calls = <<>>
        /\ fs = {}

(* Three pages in a row were full: getRepo is asking for the fourth, and    *)
(* the second source is still to come.                                      *)
GetRepoReturnsOnlyOnEmptyOrErrorWitness ==
    /\ pc = "getRepo"
    /\ Len(responses) = 3
    /\ \A i \in 1..3 : Len(responses[i].repos) = perPage
    /\ page = 4
    /\ Len(repos) = 300
    /\ Len(config.Sources) = 2

====
